---- MODULE Spec2Model ----
(***************************************************************************)
(* The discriminant codec of the interpreter                               *)
(* (compiler/rustc_const_eval/src/interpret/discriminant.rs):              *)
(* write_discriminant, read_discriminant, discriminant_for_variant and     *)
(* tag_for_variant, over one typed memory location.                        *)
(*                                                                         *)
(* A type is the record of what the code asks of its layout; the memory    *)
(* location is the tag field plus the rest of the value (payload).         *)
(* Widths are kept (arithmetic is modulo 2^size); the widths used are      *)
(* small so that every tag value of a type is enumerated.                  *)
(***************************************************************************)
EXTENDS Integers, Sequences, FiniteSets, TLC

VARIABLES ty, mem, last

vars == <<ty, mem, last>>

\* ------------------------------------------------------------------ bounds
\* Largest number of declared variants of an enumerated type.
MaxVariants == 4
\* Width in bits of the tag of the enumerated family of layouts.
TagBits == 2
\* Width in bits of the tag of the one-byte example layouts.
ByteBits == 8

\* ----------------------------------------------------------------- results
Ok(v) == [kind |-> "Ok", val |-> v]
Err(e, v) == [kind |-> e, val |-> v]

UninhabitedEnumVariantWritten(v) == Err("UninhabitedEnumVariantWritten", v)
UninhabitedEnumVariantRead(v) == Err("UninhabitedEnumVariantRead", v)
\* InvalidTag cites the tag bits, or -1 for a pointer-like value.
InvalidTag(bits) == Err("InvalidTag", bits)
InvalidNichedEnumVariantWritten == Err("InvalidNichedEnumVariantWritten", 0)
\* read_immediate of a tag field that holds no initialized scalar.
InvalidUninitBytes == Err("InvalidUninitBytes", 0)
\* assert!, expect, unwrap, span_bug!: an internal compiler error.
Bug == Err("Bug", 0)

\* --------------------------------------------------------- memory contents
IntTag(b) == [kind |-> "int", bits |-> b, may_be_null |-> FALSE]
PtrTag(n) == [kind |-> "ptr", bits |-> 0, may_be_null |-> n]
UninitTag == [kind |-> "uninit", bits |-> 0, may_be_null |-> FALSE]

Payloads == {"p0", "p1"}

\* ------------------------------------------------------ machine arithmetic
\* Size::truncate
truncate(size, v) == v % (2 ^ size)

\* wrapping_binary_op(BinOp::Add, ..) on two values of a `size`-bit integer
wrapping_add(size, a, b) == (a + b) % (2 ^ size)

\* Subtraction that stops at 0 instead of wrapping.
saturating_sub(size, a, b) == IF a < b THEN 0 ELSE a - b

\* wrapping_binary_op(BinOp::Sub, ..) on two values of a `size`-bit integer
wrapping_sub(size, a, b) == (a - b + (2 ^ size)) % (2 ^ size)

\* int_to_int_or_float from the tag's integer type to the discriminant's:
\* sign-extends a signed source, zero-extends an unsigned one, and truncates
\* to the destination size.
int_to_int(bits, from_size, from_signed, to_size) ==
  LET wide == IF from_signed /\ bits >= 2 ^ (from_size - 1)
              THEN bits - (2 ^ from_size) + (2 ^ to_size)
              ELSE bits
  IN truncate(to_size, wide)

\* ------------------------------------------------------------------ layouts
(***************************************************************************)
(* What the code reads of a type and its layout:                           *)
(*   kind            ty.kind(): "Enum", "Coroutine" or "Other" (non-enum)  *)
(*   nvariants       number of declared variants (def.variants().len())    *)
(*   variants        "Single" or "Multiple"                                *)
(*   index           Variants::Single { index }                            *)
(*   tag_encoding    "Direct" or "Niche" ("NoTag" under Single)            *)
(*   tag_size, tag_signed   the tag's integer type                         *)
(*   discr_size      size of ty.discriminant_ty()                          *)
(*   discrs          the declared discriminants, as bits of discr_size,    *)
(*                   discrs[v + 1] for variant v                           *)
(*   untagged_variant, variants_start, variants_end, niche_start           *)
(*                   TagEncoding::Niche { .. }                             *)
(*   inhabited       inhabited[v] <=> ~for_variant(v).abi.is_uninhabited() *)
(***************************************************************************)
Variants(n) == 0 .. (n - 1)

DiscrBits == TagBits + 1
ByteDiscrBits == 2 * ByteBits

SingleLayout(k, n, i, inh) ==
  [kind |-> k, nvariants |-> n, variants |-> "Single", index |-> i,
   tag_encoding |-> "NoTag", tag_size |-> 0, tag_signed |-> FALSE,
   discr_size |-> DiscrBits, discrs |-> [v \in 1 .. n |-> v - 1],
   untagged_variant |-> 0, variants_start |-> 0, variants_end |-> 0,
   niche_start |-> 0, inhabited |-> inh]

DirectLayout(k, n, size, signed, dsize, ds, inh) ==
  [kind |-> k, nvariants |-> n, variants |-> "Multiple", index |-> 0,
   tag_encoding |-> "Direct", tag_size |-> size, tag_signed |-> signed,
   discr_size |-> dsize, discrs |-> ds,
   untagged_variant |-> 0, variants_start |-> 0, variants_end |-> 0,
   niche_start |-> 0, inhabited |-> inh]

NicheLayout(n, size, u, s, e, ns, inh) ==
  [kind |-> "Enum", nvariants |-> n, variants |-> "Multiple", index |-> 0,
   tag_encoding |-> "Niche", tag_size |-> size, tag_signed |-> FALSE,
   discr_size |-> DiscrBits, discrs |-> [v \in 1 .. n |-> v - 1],
   untagged_variant |-> u, variants_start |-> s, variants_end |-> e,
   niche_start |-> ns, inhabited |-> inh]

\* Single layouts: a non-enum type, a declared-empty enum, and an enum whose
\* only representable variant is `index` (every other variant is absent).
SingleLayouts ==
  {SingleLayout("Other", 1, 0, [v \in Variants(1) |-> b]) : b \in BOOLEAN}
  \cup {SingleLayout("Enum", 0, 0, [v \in Variants(0) |-> FALSE])}
  \cup {SingleLayout("Enum", n[1], n[2], [v \in Variants(n[1]) |-> v = n[2] /\ b]) :
          n \in {p \in (1 .. MaxVariants) \X Variants(MaxVariants) : p[2] < p[1]},
          b \in BOOLEAN}

\* The discriminant values a `size`-bit tag of the given signedness holds,
\* as bits of the discriminant type.
FitsTag(size, signed, dsize) ==
  {d \in 0 .. (2 ^ dsize) - 1 : int_to_int(truncate(size, d), size, signed, dsize) = d}

\* Declared discriminants: distinct values that the tag holds.
DiscrTables(n, size, signed, dsize) ==
  {ds \in [1 .. n -> FitsTag(size, signed, dsize)] :
     \A i, j \in 1 .. n : i < j => ds[i] < ds[j]}

\* Direct layouts of enums: at most one of the variants is uninhabited.
DirectLayouts ==
  UNION {UNION {{DirectLayout("Enum", n, TagBits, signed, DiscrBits, ds,
                              [v \in Variants(n) |-> v # dead]) :
                   ds \in DiscrTables(n, TagBits, signed, DiscrBits),
                   dead \in Variants(n + 1)} :
                signed \in BOOLEAN} :
         n \in {m \in 1 .. MaxVariants : m <= 2 ^ TagBits}}

\* Coroutines: a Direct tag holding the variant index.
CoroutineLayouts ==
  {DirectLayout("Coroutine", 3, TagBits, FALSE, DiscrBits, [v \in 1 .. 3 |-> v - 1],
                [v \in Variants(3) |-> v # dead]) : dead \in Variants(4)}

\* Tag values near the bounds of a `size`-bit integer.
NicheStarts(size) == {0, 1, (2 ^ size) - 2, (2 ^ size) - 1}

\* Niche layouts: the niche variants are a contiguous range that leaves a tag
\* value for the untagged variant, the untagged variant is outside the range,
\* and a variant that is neither is absent from the layout (uninhabited).
NicheShapes(n, size) ==
  {p \in Variants(n) \X Variants(n) \X Variants(n) :
     /\ p[2] <= p[3]
     /\ (p[1] < p[2] \/ p[1] > p[3])
     /\ p[3] - p[2] + 1 < 2 ^ size}

NicheLayouts ==
  UNION {UNION {{NicheLayout(n, TagBits, p[1], p[2], p[3], ns, inh) :
                   ns \in NicheStarts(TagBits),
                   inh \in {f \in [Variants(n) -> BOOLEAN] :
                              \A v \in Variants(n) :
                                f[v] => (v = p[1] \/ (p[2] <= v /\ v <= p[3]))}} :
                p \in NicheShapes(n, TagBits)} :
         n \in 2 .. MaxVariants}

AllInhabited(n) == [v \in Variants(n) |-> TRUE]

\* One-byte tags: discriminants {10, 20, 200} and {-1, 0, 100} behind a Direct
\* tag, a niche of three variants starting at max_value - 1, and the
\* two-variant niche at 0.
ByteLayouts ==
  {DirectLayout("Enum", 3, ByteBits, FALSE, ByteDiscrBits,
                <<10, 20, 200>>, [v \in Variants(3) |-> v # dead]) :
     dead \in {1, 3}}
  \cup {DirectLayout("Enum", 3, ByteBits, TRUE, ByteDiscrBits,
                     <<(2 ^ ByteDiscrBits) - 1, 0, 100>>, AllInhabited(3))}
  \cup {NicheLayout(4, ByteBits, 0, 1, 3, (2 ^ ByteBits) - 2, AllInhabited(4)),
        NicheLayout(2, ByteBits, 1, 0, 0, 0, AllInhabited(2))}

Layouts ==
  SingleLayouts \cup DirectLayouts \cup CoroutineLayouts \cup NicheLayouts
  \cup ByteLayouts

\* The contents a location of type t can hold: any bit pattern of the tag's
\* width, a pointer-like value (possibly null or not), or no scalar at all.
TagValues(t) ==
  IF t.variants = "Single"
  THEN {UninitTag, IntTag(0)}
  ELSE {IntTag(b) : b \in 0 .. (2 ^ t.tag_size) - 1}
       \cup {PtrTag(n) : n \in BOOLEAN} \cup {UninitTag}

Memories(t) == [tag : TagValues(t), payload : Payloads]

\* --------------------------------------------------------------- the codec
\* dest.layout().for_variant(self, variant_index).abi.is_uninhabited()
is_uninhabited(t, v) == ~t.inhabited[v]

\* The extra checks of Single layouts made on every type.
is_enum_any(t) == TRUE

\* ty.is_enum()
is_enum(t) == t.kind = "Enum"

(***************************************************************************)
(* discriminant_for_variant: the declared discriminant of the variant, or, *)
(* on a type without discriminants, the variant index, which must be 0.    *)
(***************************************************************************)
discriminant_for_variant(t, v) ==
  IF t.kind \in {"Enum", "Coroutine"} /\ t.nvariants > 0
  THEN IF v \in Variants(t.nvariants) THEN Ok(t.discrs[v + 1]) ELSE Bug
  ELSE IF v = 0 THEN Ok(v) ELSE Bug

\* direct_tag with the discriminant saturated to the tag's largest value.
direct_tag_saturating(t, discr_val) ==
  IF discr_val > (2 ^ t.tag_size) - 1 THEN (2 ^ t.tag_size) - 1 ELSE discr_val

\* The tag of tag_for_variant's Direct arm: the discriminant truncated to the
\* tag's size.
direct_tag(t, discr_val) == truncate(t.tag_size, discr_val)

\* niche_tag with the addition saturating at the tag's largest value.
niche_tag_saturating(t, variant_index_relative) ==
  IF variant_index_relative + t.niche_start > (2 ^ t.tag_size) - 1
  THEN (2 ^ t.tag_size) - 1
  ELSE variant_index_relative + t.niche_start

\* The tag of tag_for_variant's Niche arm:
\* tag_val = variant_index_relative + niche_start_val, in machine arithmetic.
niche_tag(t, variant_index_relative) ==
  wrapping_add(t.tag_size, variant_index_relative, t.niche_start)

(***************************************************************************)
(* tag_for_variant: how to write the tag of a variant.  "None": nothing is *)
(* to be written, the variant is encoded implicitly; "Some": `tag` is to   *)
(* be stored in the tag field.                                             *)
(***************************************************************************)
NoTagWrite == [kind |-> "None", tag |-> 0]
SomeTag(b) == [kind |-> "Some", tag |-> b]
TagBug == [kind |-> "Bug", tag |-> 0]

tag_for_variant(t, v) ==
  IF t.variants = "Single"
  THEN IF t.index = v THEN NoTagWrite ELSE TagBug
  ELSE IF t.tag_encoding = "Direct"
  THEN LET discr == discriminant_for_variant(t, v)
       IN IF discr.kind = "Ok" THEN SomeTag(direct_tag(t, discr.val)) ELSE TagBug
  ELSE IF t.untagged_variant = v
  THEN NoTagWrite
  ELSE IF v < t.variants_start
  THEN TagBug
  ELSE SomeTag(niche_tag(t, v - t.variants_start))

\* The arm of read_discriminant for TagEncoding::Direct, on the tag read.
read_direct(t, tag_val) ==
  IF tag_val.kind # "int"
  THEN InvalidTag(-1)
  ELSE LET discr_bits == int_to_int(tag_val.bits, t.tag_size, t.tag_signed, t.discr_size)
           found == {v \in Variants(t.nvariants) : t.discrs[v + 1] = discr_bits}
       IN IF t.kind \notin {"Enum", "Coroutine"}
          THEN Bug
          ELSE IF found = {}
          THEN InvalidTag(tag_val.bits)
          ELSE Ok(CHOOSE v \in found : \A u \in found : v <= u)

\* The range check with the niche range's number of variants as its bound.
in_niche_range_by_count(t, variant_index_relative) ==
  variant_index_relative <= t.variants_end - t.variants_start + 1

\* The check of the relative variant index against the niche range.
in_niche_range(t, variant_index_relative) ==
  variant_index_relative <= t.variants_end - t.variants_start

\* read_niche accepting a non-null pointer-like tag whatever the niche.
read_niche_any_pointer(t, tag_val) ==
  IF tag_val.kind # "int"
  THEN IF tag_val.may_be_null THEN InvalidTag(-1) ELSE Ok(t.untagged_variant)
  ELSE LET variant_index_relative ==
             wrapping_sub(t.tag_size, tag_val.bits, t.niche_start)
       IN IF in_niche_range(t, variant_index_relative)
          THEN LET variant_index == t.variants_start + variant_index_relative
               IN IF variant_index < t.nvariants THEN Ok(variant_index) ELSE Bug
          ELSE Ok(t.untagged_variant)

\* The arm of read_discriminant for TagEncoding::Niche, on the tag read.
read_niche(t, tag_val) ==
  IF tag_val.kind # "int"
  THEN LET ptr_valid == /\ t.niche_start = 0
                        /\ t.variants_start = t.variants_end
                        /\ ~tag_val.may_be_null
       IN IF ~ptr_valid THEN InvalidTag(-1) ELSE Ok(t.untagged_variant)
  ELSE LET variant_index_relative ==
             wrapping_sub(t.tag_size, tag_val.bits, t.niche_start)
       IN IF in_niche_range(t, variant_index_relative)
          THEN LET variant_index == t.variants_start + variant_index_relative
               IN IF variant_index < t.nvariants THEN Ok(variant_index) ELSE Bug
          ELSE Ok(t.untagged_variant)

\* The last check of read_discriminant: an uninhabited variant is never
\* returned.
check_inhabited(t, index) ==
  IF is_uninhabited(t, index) THEN UninhabitedEnumVariantRead(index) ELSE Ok(index)

(***************************************************************************)
(* read_discriminant on a location of type t holding m.  `res` is what it  *)
(* returns; `log` lists the accesses it makes to the location, in order.   *)
(***************************************************************************)
read_discriminant(t, m) ==
  IF t.variants = "Single"
  THEN [res |-> IF is_enum(t) /\ t.nvariants = 0
                THEN UninhabitedEnumVariantRead(t.index)
                ELSE IF is_enum(t) /\ is_uninhabited(t, t.index)
                THEN UninhabitedEnumVariantRead(t.index)
                ELSE Ok(t.index),
        log |-> <<>>]
  ELSE [res |-> IF m.tag.kind = "uninit"
                THEN InvalidUninitBytes
                ELSE LET index == IF t.tag_encoding = "Direct"
                                  THEN read_direct(t, m.tag)
                                  ELSE read_niche(t, m.tag)
                     IN IF index.kind = "Ok" THEN check_inhabited(t, index.val)
                        ELSE index,
        log |-> <<"read_immediate">>]

\* write_scalar storing the tag over the whole value.
write_scalar_whole_value(m, tag) == [tag |-> IntTag(tag), payload |-> "p0"]

\* write_scalar(tag, &tag_dest): the tag field holds the tag, the rest of the
\* value is as it was.
write_scalar(m, tag) == [m EXCEPT !.tag = IntTag(tag)]

\* write_discriminant asking tag_for_variant before the check of the variant.
write_discriminant_encode_first(t, v, m) ==
  LET enc == tag_for_variant(t, v)
  IN IF enc.kind = "Some"
     THEN IF is_uninhabited(t, v)
          THEN [res |-> UninhabitedEnumVariantWritten(v),
                mem |-> write_scalar(m, enc.tag),
                log |-> <<"tag_for_variant", "write_scalar">>]
          ELSE [res |-> Ok(v), mem |-> write_scalar(m, enc.tag),
                log |-> <<"tag_for_variant", "write_scalar">>]
     ELSE [res |-> IF is_uninhabited(t, v)
                   THEN UninhabitedEnumVariantWritten(v)
                   ELSE read_discriminant(t, m).res,
           mem |-> m, log |-> <<"tag_for_variant">>]

\* write_discriminant without the re-decode of an implicitly encoded variant.
write_discriminant_unguarded(t, v, m) ==
  IF is_uninhabited(t, v)
  THEN [res |-> UninhabitedEnumVariantWritten(v), mem |-> m, log |-> <<>>]
  ELSE LET enc == tag_for_variant(t, v)
       IN IF enc.kind = "Some"
          THEN [res |-> Ok(v), mem |-> write_scalar(m, enc.tag),
                log |-> <<"tag_for_variant", "write_scalar">>]
          ELSE [res |-> Ok(v), mem |-> m, log |-> <<"tag_for_variant">>]

(***************************************************************************)
(* write_discriminant of variant v to a location of type t holding m.      *)
(* `res` is what it returns, `mem` what the location holds afterwards, and *)
(* `log` the calls it makes, in order.                                     *)
(***************************************************************************)
write_discriminant(t, v, m) ==
  IF is_uninhabited(t, v)
  THEN [res |-> UninhabitedEnumVariantWritten(v), mem |-> m, log |-> <<>>]
  ELSE LET enc == tag_for_variant(t, v)
       IN IF enc.kind = "Bug"
          THEN [res |-> Bug, mem |-> m, log |-> <<"tag_for_variant">>]
          ELSE IF enc.kind = "Some"
          THEN [res |-> Ok(v), mem |-> write_scalar(m, enc.tag),
                log |-> <<"tag_for_variant", "write_scalar">>]
          ELSE LET actual_variant == read_discriminant(t, m)
               IN [res |-> IF actual_variant.res.kind # "Ok"
                           THEN actual_variant.res
                           ELSE IF actual_variant.res.val # v
                           THEN InvalidNichedEnumVariantWritten
                           ELSE Ok(v),
                   mem |-> m,
                   log |-> <<"tag_for_variant", "read_discriminant">>
                           \o actual_variant.log]

\* ------------------------------------------------------------ state machine
(***************************************************************************)
(* `last` records the call made last: which (op), the variant written,     *)
(* what it returned (res), the calls it made (log), what the location held *)
(* before it (pre), what the read just before a read returned (prev), and  *)
(* the variant that the write before a read stored successfully (wrote).   *)
(***************************************************************************)
NoOp == [op |-> "none", variant |-> 0, res |-> Ok(0), log |-> <<>>,
         pre |-> [tag |-> UninitTag, payload |-> "p0"], prev |-> Err("NoRead", 0),
         wrote |-> -1]

\* A type with its layout, and a location of that type holding any contents.
Init ==
  /\ ty \in Layouts
  /\ mem \in Memories(ty)
  /\ last = NoOp

\* The variants write_discriminant is called with: the declared ones.
Declared(t) == Variants(t.nvariants)

WriteDiscriminant ==
  \E v \in Declared(ty) :
    LET w == write_discriminant(ty, v, mem)
    IN /\ mem' = w.mem
       /\ last' = [op |-> "write", variant |-> v, res |-> w.res, log |-> w.log,
                   pre |-> mem, prev |-> Err("NoRead", 0), wrote |-> -1]
       /\ UNCHANGED ty

\* read_discriminant taking the tag out of the location it reads.
ReadDiscriminantTakingTag ==
  LET r == read_discriminant(ty, mem)
  IN /\ last' = [op |-> "read", variant |-> 0, res |-> r.res, log |-> r.log,
                 pre |-> mem,
                 prev |-> IF last.op = "read" THEN last.res ELSE Err("NoRead", 0),
                 wrote |-> -1]
     /\ mem' = [mem EXCEPT !.tag = UninitTag]
     /\ UNCHANGED ty

ReadDiscriminant ==
  LET r == read_discriminant(ty, mem)
  IN /\ last' = [op |-> "read", variant |-> 0, res |-> r.res, log |-> r.log,
                 pre |-> mem,
                 prev |-> IF last.op = "read" THEN last.res ELSE Err("NoRead", 0),
                 wrote |-> IF last.op = "write"
                           THEN IF last.res.kind = "Ok" THEN last.variant ELSE -1
                           ELSE last.wrote]
     /\ UNCHANGED <<ty, mem>>

Next == WriteDiscriminant \/ ReadDiscriminant

Spec == Init /\ [][Next]_vars

\* ------------------------------------------------------------------- claims
\* C1: round trip. Whenever write_discriminant(V, dest) succeeds, the
\* read_discriminant of the resulting memory returns exactly V (V is then a
\* declared, inhabited variant), for Single, Direct and Niche layouts.
C1_RoundTrip ==
  (last.op = "read" /\ last.wrote >= 0) =>
    /\ ~is_uninhabited(ty, last.wrote)
    /\ last.res = Ok(last.wrote)

\* C1 witness: a tagged niche variant was written and read back.
C1_Witness ==
  /\ last.op = "read"
  /\ last.wrote >= 0
  /\ ty.tag_encoding = "Niche"
  /\ last.wrote # ty.untagged_variant
  /\ last.res = Ok(last.wrote)

\* C2: read_discriminant never returns an uninhabited variant, on enums and
\* on non-enum types alike: whenever it returns Ok(index), the variant at
\* that index is inhabited.
C2_NeverUninhabited ==
  (last.op = "read" /\ last.res.kind = "Ok") => ~is_uninhabited(ty, last.res.val)

\* C3: write_discriminant changes the tag field or nothing: the rest of the
\* value is as it was in every outcome, and when it returns an error the
\* whole location is as it was.
C3_WriteFrame ==
  last.op = "write" =>
    /\ mem.payload = last.pre.payload
    /\ (last.res.kind # "Ok" => mem = last.pre)
    /\ (mem # last.pre => last.log = <<"tag_for_variant", "write_scalar">>)

\* C3 witness: a write failed with InvalidNichedEnumVariantWritten on a
\* location holding an integer tag.
C3_Witness ==
  /\ last.op = "write"
  /\ last.res = InvalidNichedEnumVariantWritten
  /\ last.pre.tag.kind = "int"
  /\ mem = last.pre

\* C4: write_discriminant of an uninhabited variant fails with
\* UninhabitedEnumVariantWritten for every layout, before tag_for_variant is
\* asked and before the location is read or written, whatever it holds.
C4_UninhabitedRejected ==
  (last.op = "write" /\ is_uninhabited(ty, last.variant)) =>
    /\ last.res = UninhabitedEnumVariantWritten(last.variant)
    /\ last.log = <<>>
    /\ mem = last.pre

\* C4 witness: an uninhabited niche variant was written to a location whose
\* tag field holds no scalar.
C4_Witness ==
  /\ last.op = "write"
  /\ ty.tag_encoding = "Niche"
  /\ is_uninhabited(ty, last.variant)
  /\ last.variant # ty.untagged_variant
  /\ last.pre.tag.kind = "uninit"
  /\ last.res.kind = "UninhabitedEnumVariantWritten"

\* The variants of a niche layout's niche range.
NicheVariants(t) == t.variants_start .. t.variants_end

\* C5: niche encode and decode agree under wraparound. For a Niche layout and
\* every variant V of the niche range, tag_for_variant gives the tag
\* (V - variants_start + niche_start) mod 2^size, a successful write of V
\* stores it, and reading it resolves V and not the untagged variant; with
\* niche_start = max_value - 1 and three niche variants the variant at
\* offset 2 is stored as 0 and 0 reads back as that variant.
C5_NicheWraparound ==
  ty.tag_encoding = "Niche" =>
    \A V \in NicheVariants(ty) :
      LET expected == (V - ty.variants_start + ty.niche_start) % (2 ^ ty.tag_size)
      IN /\ tag_for_variant(ty, V) = SomeTag(expected)
         /\ (last.op = "write" /\ last.variant = V /\ last.res.kind = "Ok")
              => mem.tag = IntTag(expected)
         /\ (last.op = "read" /\ last.pre.tag = IntTag(expected))
              => /\ last.res = IF ty.inhabited[V] THEN Ok(V)
                               ELSE UninhabitedEnumVariantRead(V)
                 /\ last.res.val # ty.untagged_variant
         /\ (/\ ty.niche_start = (2 ^ ty.tag_size) - 2
             /\ ty.variants_end - ty.variants_start = 2
             /\ V = ty.variants_start + 2) => expected = 0

\* C5 witness: with niche_start = max_value - 1 and three niche variants, a
\* tag of 0 was read as the variant at offset 2.
C5_Witness ==
  /\ ty.tag_encoding = "Niche"
  /\ ty.niche_start = (2 ^ ty.tag_size) - 2
  /\ ty.variants_end - ty.variants_start = 2
  /\ last.op = "read"
  /\ last.pre.tag = IntTag(0)
  /\ last.res = Ok(ty.variants_start + 2)
  /\ last.wrote = ty.variants_start + 2

\* C6: Direct exactness. For a Direct layout and every declared variant V,
\* tag_for_variant gives the discriminant modulo 2^size, a successful write
\* of V stores it, and reading it returns V; so it is for the discriminants
\* {10, 20, 200} behind a one-byte tag.
C6_DirectExact ==
  ty.tag_encoding = "Direct" =>
    \A V \in Variants(ty.nvariants) :
      LET expected == ty.discrs[V + 1] % (2 ^ ty.tag_size)
      IN /\ tag_for_variant(ty, V) = SomeTag(expected)
         /\ (last.op = "write" /\ last.variant = V /\ last.res.kind = "Ok")
              => mem.tag = IntTag(expected)
         /\ (last.op = "read" /\ last.pre.tag = IntTag(expected))
              => last.res = IF ty.inhabited[V] THEN Ok(V)
                            ELSE UninhabitedEnumVariantRead(V)

\* C6 witness: the variant of discriminant 200 was written behind a one-byte
\* tag and read back.
C6_Witness ==
  /\ ty.tag_encoding = "Direct"
  /\ ty.discrs = <<10, 20, 200>>
  /\ last.op = "read"
  /\ last.pre.tag = IntTag(200)
  /\ last.wrote = 2
  /\ last.res = Ok(2)

NicheResolved(t, bits, bound) ==
  LET relative == (bits - t.niche_start) % (2 ^ t.tag_size)
  IN IF relative <= bound THEN t.variants_start + relative ELSE t.untagged_variant

\* What read_discriminant returns once the tag has resolved to variant v.
Resolved(t, v) ==
  IF v \in Variants(t.nvariants) /\ t.inhabited[v] THEN Ok(v)
  ELSE UninhabitedEnumVariantRead(v)

\* The number of variants of the niche range.
NicheRangeLength(t) == t.variants_end - t.variants_start + 1

\* C9 as stated: a plain-integer tag resolves to variants_start + relative
\* when relative is within [0, niche_range_length], the length of the niche
\* range being its number of variants, and to untagged_variant otherwise.
C9_AsStated ==
  (ty.tag_encoding = "Niche" /\ last.op = "read" /\ last.pre.tag.kind = "int") =>
    /\ last.res.kind # "InvalidTag"
    /\ last.res = Resolved(ty, NicheResolved(ty, last.pre.tag.bits, NicheRangeLength(ty)))

\* C9 amended: a plain-integer tag resolves to variants_start + relative when
\* relative is within [0, niche_range_length - 1], that is, when
\* relative <= variants_end - variants_start, and to untagged_variant
\* otherwise; it never fails with InvalidTag, with niche_start = 0, niche
\* range {A} and untagged B every tag but 0 resolves to B, and the niche
\* branch resolves to no variant outside the niche range.
C9_NicheDecodeInt ==
  (ty.tag_encoding = "Niche" /\ last.op = "read" /\ last.pre.tag.kind = "int") =>
    LET bits == last.pre.tag.bits
        relative == (bits - ty.niche_start) % (2 ^ ty.tag_size)
        v == NicheResolved(ty, bits, NicheRangeLength(ty) - 1)
    IN /\ last.res.kind # "InvalidTag"
       /\ last.res = Resolved(ty, v)
       /\ relative <= NicheRangeLength(ty) - 1 => v \in NicheVariants(ty)
       /\ relative > NicheRangeLength(ty) - 1 => v = ty.untagged_variant
       /\ (ty.niche_start = 0 /\ NicheRangeLength(ty) = 1 /\ bits # 0)
            => v = ty.untagged_variant

\* C9 witness: in the two-variant niche at 0 of a one-byte tag, a tag other
\* than 0 was read as the untagged variant.
C9_Witness ==
  /\ ty.tag_encoding = "Niche"
  /\ ty.tag_size = ByteBits
  /\ ty.niche_start = 0
  /\ NicheRangeLength(ty) = 1
  /\ last.op = "read"
  /\ last.pre.tag.kind = "int"
  /\ last.pre.tag.bits = 1
  /\ last.res = Ok(ty.untagged_variant)

\* The variants that are encoded implicitly: the variant of a Single layout
\* and the untagged variant of a Niche layout.
Implicit(t, v) ==
  \/ t.variants = "Single" /\ v = t.index
  \/ t.tag_encoding = "Niche" /\ v = t.untagged_variant

\* C10: the guard of an implicit write. When tag_for_variant returns None
\* (Single layout, or the untagged variant of a Niche layout),
\* write_discriminant writes nothing and decodes the destination: it
\* succeeds exactly when the destination decodes to the requested variant,
\* fails with InvalidNichedEnumVariantWritten when it decodes to another
\* one, and returns the decode's failure when the decode fails.
C10_ImplicitWriteGuard ==
  (last.op = "write" /\ ~is_uninhabited(ty, last.variant)) =>
    LET v == last.variant
        decoded == read_discriminant(ty, last.pre).res
    IN /\ (tag_for_variant(ty, v).kind = "None") <=> Implicit(ty, v)
       /\ Implicit(ty, v) =>
            /\ mem = last.pre
            /\ "write_scalar" \notin {last.log[i] : i \in DOMAIN last.log}
            /\ "read_discriminant" \in {last.log[i] : i \in DOMAIN last.log}
            /\ (last.res.kind = "Ok") <=> (decoded = Ok(v))
            /\ (decoded.kind = "Ok" /\ decoded.val # v)
                 => last.res = InvalidNichedEnumVariantWritten
            /\ decoded.kind # "Ok" => last.res = decoded

\* C10 witness: the untagged variant was written to a location whose tag
\* encodes a niche variant.
C10_Witness ==
  /\ last.op = "write"
  /\ ty.tag_encoding = "Niche"
  /\ last.variant = ty.untagged_variant
  /\ last.pre.tag.kind = "int"
  /\ last.res = InvalidNichedEnumVariantWritten
  /\ mem = last.pre

\* The declared variants whose discriminant is the tag's bits cast from the
\* tag's integer type to the discriminant's.
Matching(t, bits) ==
  LET cast == IF t.tag_signed /\ bits >= 2 ^ (t.tag_size - 1)
              THEN (bits - (2 ^ t.tag_size)) % (2 ^ t.discr_size)
              ELSE bits % (2 ^ t.discr_size)
  IN {v \in Variants(t.nvariants) : t.discrs[v + 1] = cast}

\* C11: tags that are no plain integer or match no variant are rejected with
\* InvalidTag. Under Direct encoding a pointer-like tag always fails with
\* InvalidTag, and an integer tag whose cast bits equal no declared
\* discriminant fails with InvalidTag citing the bits. Under Niche encoding
\* a pointer-like tag resolves to untagged_variant only if niche_start = 0,
\* the niche range holds exactly one variant and the value cannot be null,
\* and fails with InvalidTag in every other pointer-like case.
C11_InvalidTag ==
  (last.op = "read" /\ ty.variants = "Multiple") =>
    LET tag == last.pre.tag
        accepted == /\ ty.niche_start = 0
                    /\ NicheRangeLength(ty) = 1
                    /\ ~tag.may_be_null
    IN /\ (ty.tag_encoding = "Direct" /\ tag.kind = "ptr")
            => last.res.kind = "InvalidTag"
       /\ (ty.tag_encoding = "Direct" /\ tag.kind = "int")
            => IF Matching(ty, tag.bits) = {}
               THEN last.res = InvalidTag(tag.bits)
               ELSE last.res.kind # "InvalidTag"
       /\ (ty.tag_encoding = "Niche" /\ tag.kind = "ptr" /\ accepted)
            => last.res = Resolved(ty, ty.untagged_variant)
       /\ (ty.tag_encoding = "Niche" /\ tag.kind = "ptr" /\ ~accepted)
            => last.res.kind = "InvalidTag"

\* C11 witness: a non-null pointer-like tag of a one-variant niche at 0 was
\* read as the untagged variant.
C11_Witness ==
  /\ last.op = "read"
  /\ ty.tag_encoding = "Niche"
  /\ ty.niche_start = 0
  /\ NicheRangeLength(ty) = 1
  /\ last.pre.tag = PtrTag(FALSE)
  /\ last.res = Ok(ty.untagged_variant)

====
